---- MODULE Spec2Model ----
(***************************************************************************)
(* A model of the ImbaML experiment harness: the dataset loaders           *)
(* (OpenMLExperimentRunner, ZenodoExperimentRunner), the orchestration     *)
(* loop ExperimentRunner.run with preprocessing, splitting, positive-class *)
(* detection and the fit / predict / examine_quality block of              *)
(* ImbaExperimentRunner, and the command line of ExperimentMain.main.      *)
(*                                                                         *)
(* A label vector is a bag of labels (label |-> number of rows), a feature *)
(* matrix is its row count, the number of rows holding a NaN and the list  *)
(* of its columns.  The external libraries are modelled by their           *)
(* outcomes: a fetch succeeds, times out or fails; the stratified split    *)
(* raises ValueError or returns class counts of the train part.            *)
(***************************************************************************)
EXTENDS Integers, Sequences, FiniteSets, TLC

\* ---------------------------------------------------------------- bounds
MaxTasks == 2      \* length of the OpenML benchmark suite
MaxFetched == 2    \* size of the fetched Zenodo collection
MaxTrials == 1     \* trial counts given to run are 1..MaxTrials
Major == 8         \* rows of every class but the greatest one

\* ------------------------------------------------------ program constants
DefaultEvals == 10     \* self._n_evals = 10
IdStart == 1           \* itertools.count(start=1)
TestSizeDen == 5       \* test_size=0.2, one row in five
FitArity == 5          \* fit(X_train, y_train, target_label, dataset_name, n_evals)
RunFitArgs == 4        \* self.fit(X_train, y_train, task.target_label, task.name)
MaxBinary == 2         \* len(class_belongings) > 2
DefaultTrials == 30    \* --trials default

\* ------------------------------------------------------------ input sets
OrigLabels == {-1, 1, 2}
LabelUniverse == {-1, 0, 1, 2}
MinorCounts == {1, 2}
Metrics == {"f1"}

Max(S) == CHOOSE m \in S : \A x \in S : x <= m
Min(S) == CHOOSE m \in S : \A x \in S : m <= x

\* The label bag of a dataset whose classes are S: the greatest label has
\* c rows, every other class Major rows.
YBag(S, c) ==
  [l \in LabelUniverse |->
     IF l \notin S THEN 0 ELSE IF l = Max(S) THEN c ELSE Major]

YBags == {YBag(S, c) : S \in (SUBSET OrigLabels) \ {{}}, c \in MinorCounts}

Total(bag) ==
  LET RECURSIVE Sum(_)
      Sum(S) == IF S = {} THEN 0
                ELSE LET l == CHOOSE x \in S : TRUE IN bag[l] + Sum(S \ {l})
  IN Sum(DOMAIN bag)

Present(bag) == {l \in DOMAIN bag : bag[l] > 0}

Col(n, k) == [name |-> n, kind |-> k]

\* The shapes of a fetched DataFrame: rows holding a NaN, columns, and
\* whether the labels are strings.
FrameShapes ==
  { [nan |-> 0, cols |-> <<Col(1, "num"), Col(2, "num")>>, str |-> FALSE],
    [nan |-> 1, cols |-> <<Col(1, "num"), Col(2, "num")>>, str |-> FALSE],
    [nan |-> 0, cols |-> <<Col(1, "str"), Col(2, "num"), Col(3, "str")>>, str |-> TRUE] }

\* domain.Dataset(id, name, X, y, target_label); kind is the type of X.
Dataset(kind, id, rows, nan, cols, counts, str) ==
  [kind |-> kind, id |-> id,
   X |-> [rows |-> rows, nan |-> nan, cols |-> cols],
   y |-> [counts |-> counts, str |-> str]]

NoBag == [l \in LabelUniverse |-> 0]

None == Dataset("None", 0, 0, 0, <<>>, NoBag, FALSE)

NdArray(id, bag) ==
  Dataset("ndarray", id, Total(bag), 0, <<Col(1, "num")>>, bag, FALSE)

Frame(id, bag, shape) ==
  Dataset("frame", id, Total(bag), shape.nan, shape.cols, bag, shape.str)

VARIABLES
  runner,        \* the loader class of the runner: "openml" or "zenodo"
  datasets,      \* ZenodoExperimentRunner.__datasets
  metric,        \* self._metric
  tasks,         \* self._tasks
  id_counter,    \* the next value of self._id_counter
  n_evals,       \* self._n_evals
  fitted_model,  \* self._fitted_model
  pc,            \* "new", "defined", "running", "done", "raised"
  idx,           \* the position of run's loop in self._tasks
  log,           \* what the runner called and logged, in order
  loaded,        \* the task list as define_tasks built it
  y_train,       \* run's local y_train, the train labels of the last split
  argv,          \* the command line of ExperimentMain.main
  main_pc,       \* "start", "parsed", "done", "raised"
  main_log       \* what main did, in order

vars == <<runner, datasets, metric, tasks, id_counter, n_evals, fitted_model,
          pc, idx, log, loaded, y_train, argv, main_pc, main_log>>

runner_vars == <<runner, datasets, metric, tasks, id_counter, n_evals,
                 fitted_model, pc, idx, log, loaded, y_train>>
main_vars == <<argv, main_pc, main_log>>

Unset == [state |-> "unset", task |-> 0]

\* ExperimentRunner.__init__: the annotation of _fitted_model assigns nothing.
RunnerInit ==
  /\ tasks = <<>>
  /\ id_counter = IdStart
  /\ n_evals = DefaultEvals
  /\ fitted_model = Unset
  /\ pc = "new"
  /\ idx = 0
  /\ log = <<>>
  /\ loaded = <<>>
  /\ y_train = NoBag

\* ------------------------------------------------------------- the loaders
Ev(t, ev, info, num) == [task |-> t, ev |-> ev, info |-> info, num |-> num]

NoShape == [nan |-> 0, cols |-> <<>>, str |-> FALSE]

\* What the fetch of one OpenML task can do.
FetchOutcomes ==
  { [res |-> r, bag |-> NoBag, shape |-> NoShape] : r \in {"timeout", "error"} }
  \cup { [res |-> "ok", bag |-> b, shape |-> s] : b \in YBags, s \in FrameShapes }

\* load_dataset drawing the id before the fetch.
OpenMLLoadDatasetEager(task_id, out, counter) ==
  IF out.res = "timeout"
  THEN [task |-> None, counter |-> counter + 1,
        events |-> <<Ev(task_id, "load_error", "timeout", 0)>>]
  ELSE IF out.res = "error"
  THEN [task |-> None, counter |-> counter + 1,
        events |-> <<Ev(task_id, "load_error", "exception", 0)>>]
  ELSE [task |-> Frame(counter, out.bag, out.shape), counter |-> counter + 1,
        events |-> <<>>]

\* OpenMLExperimentRunner.load_dataset: the record (None on a failed
\* fetch), the id counter after the call and what was logged.
OpenMLLoadDataset(task_id, out, counter) ==
  IF out.res = "timeout"
  THEN [task |-> None, counter |-> counter,
        events |-> <<Ev(task_id, "load_error", "timeout", 0)>>]
  ELSE IF out.res = "error"
  THEN [task |-> None, counter |-> counter,
        events |-> <<Ev(task_id, "load_error", "exception", 0)>>]
  ELSE [task |-> Frame(counter, out.bag, out.shape), counter |-> counter + 1,
        events |-> <<>>]

NoRange == [given |-> FALSE, idxs |-> {}]

OpenMLRanges ==
  {NoRange} \cup {[given |-> TRUE, idxs |-> r] : r \in SUBSET (0 .. MaxTasks - 1)}

Selected(task_range) ==
  IF task_range.given THEN task_range.idxs ELSE 0 .. MaxTasks - 1

\* OpenMLExperimentRunner.define_tasks: the loop over the suite's tasks.
RECURSIVE OpenMLDefineLoop(_, _, _, _)
OpenMLDefineLoop(i, task_range, outs, acc) ==
  IF i >= MaxTasks THEN acc
  ELSE IF task_range.given /\ i \notin task_range.idxs
  THEN OpenMLDefineLoop(i + 1, task_range, outs, acc)
  ELSE LET r == OpenMLLoadDataset(i, outs[i], acc.counter)
       IN OpenMLDefineLoop(i + 1, task_range, outs,
            [tasks |-> Append(acc.tasks, r.task), counter |-> r.counter,
             events |-> acc.events \o r.events])

OpenMLDefineTasks ==
  /\ runner = "openml"
  /\ pc = "new"
  /\ \E task_range \in OpenMLRanges :
       \E outs \in [Selected(task_range) -> FetchOutcomes] :
         LET r == OpenMLDefineLoop(0, task_range, outs,
                    [tasks |-> <<>>, counter |-> id_counter, events |-> <<>>])
         IN /\ tasks' = r.tasks
            /\ loaded' = r.tasks
            /\ id_counter' = r.counter
            /\ log' = log \o r.events
  /\ pc' = "defined"
  /\ UNCHANGED <<runner, datasets, metric, n_evals, fitted_model, idx, y_train>>
  /\ UNCHANGED main_vars

\* ZenodoExperimentRunner.load_dataset: the task_id-th fetched dataset, or
\* None when the loop ends without a match.
ZenodoLoadDataset(task_id, counter) ==
  IF \E i \in 0 .. Len(datasets) - 1 : i + 1 = task_id
  THEN [task |-> NdArray(counter, datasets[task_id]), counter |-> counter + 1]
  ELSE [task |-> None, counter |-> counter]

\* tuple(range(1, len(self.__datasets.keys())))
ZenodoDefaultRange ==
  [k \in 1 .. (IF Len(datasets) > 1 THEN Len(datasets) - 1 ELSE 0) |-> k]

ZenodoRanges == {<<1>>, <<2, 1>>, <<MaxFetched + 1>>}

RECURSIVE ZenodoDefineLoop(_, _, _)
ZenodoDefineLoop(k, task_range, acc) ==
  IF k > Len(task_range) THEN acc
  ELSE LET r == ZenodoLoadDataset(task_range[k], acc.counter)
       IN ZenodoDefineLoop(k + 1, task_range,
            [tasks |-> Append(acc.tasks, r.task), counter |-> r.counter])

\* ZenodoExperimentRunner.define_tasks
ZenodoDefineTasks ==
  /\ runner = "zenodo"
  /\ pc = "new"
  /\ \E given \in BOOLEAN : \E tr \in ZenodoRanges :
       LET task_range == IF given THEN tr ELSE ZenodoDefaultRange
           r == ZenodoDefineLoop(1, task_range,
                  [tasks |-> tasks, counter |-> id_counter])
       IN /\ tasks' = r.tasks
          /\ loaded' = r.tasks
          /\ id_counter' = r.counter
          /\ log' = IF given THEN log
                    ELSE Append(log, Ev(0, "task_range", "default", Len(task_range)))
  /\ pc' = "defined"
  /\ UNCHANGED <<runner, datasets, metric, n_evals, fitted_model, idx, y_train>>
  /\ UNCHANGED main_vars

\* ---------------------------------------------------------- preprocessing
RECURSIVE SortedSeq(_)
SortedSeq(S) ==
  IF S = {} THEN <<>>
  ELSE LET m == Min(S) IN <<m>> \o SortedSeq(S \ {m})

\* LabelEncoder.fit_transform: a label becomes its index among the sorted
\* distinct labels.
LabelEncode(bag) ==
  LET classes == SortedSeq(Present(bag))
  IN [l \in LabelUniverse |->
        IF \E k \in 1 .. Len(classes) : k - 1 = l THEN bag[classes[l + 1]] ELSE 0]

DropCol(cols, name) ==
  SelectSeq(cols, LAMBDA c : ~(c.name = name /\ c.kind # "dummy"))

ColKind(cols, name) ==
  LET k == CHOOSE j \in 1 .. Len(cols) :
             cols[j].name = name /\ cols[j].kind # "dummy"
  IN cols[k].kind

\* The loop of preprocess_data over the feature names of X.copy(): st.own
\* is the frame the caller passed in, st.X the frame the name X is bound
\* to, st.shared whether they are still the same object.
RECURSIVE PreprocessLoop(_, _, _)
PreprocessLoop(names, k, st) ==
  IF k > Len(names) THEN st
  ELSE LET name == names[k]
       IN IF st.X.rows = 0
          THEN LET X1 == [st.X EXCEPT !.cols = DropCol(st.X.cols, name)]
               IN PreprocessLoop(names, k + 1,
                    [st EXCEPT !.X = X1,
                               !.own = IF st.shared THEN X1 ELSE st.own])
          ELSE IF ColKind(st.X.cols, name) = "str"
          THEN LET X1 == [st.X EXCEPT !.cols = DropCol(st.X.cols, name)]
                   X2 == [X1 EXCEPT !.cols = Append(X1.cols, Col(name, "dummy"))]
               IN PreprocessLoop(names, k + 1,
                    [X |-> X2,
                     own |-> IF st.shared THEN X1 ELSE st.own,
                     shared |-> FALSE])
          ELSE PreprocessLoop(names, k + 1, st)

\* ExperimentRunner.preprocess_data(X, y): own is the caller's frame after
\* the call, ok is FALSE when None is returned, X and y are the result.
PreprocessData(X, y) ==
  LET dropped == [X EXCEPT !.rows = X.rows - X.nan, !.nan = 0]
      y1 == IF y.str THEN [counts |-> LabelEncode(y.counts), str |-> FALSE] ELSE y
      names == [k \in 1 .. Len(dropped.cols) |-> dropped.cols[k].name]
      st == PreprocessLoop(names, 1,
              [X |-> dropped, own |-> dropped, shared |-> TRUE])
  IN [own |-> st.own,
      ok |-> (st.X.rows = Total(y1.counts)),
      X |-> st.X,
      y |-> y1]

\* ------------------------------------------------------------- the split
NTest(n) == (n + TestSizeDen - 1) \div TestSizeDen
NTrain(n) == n - NTest(n)

\* train_test_split(..., test_size=0.2, stratify=y) raises ValueError when
\* a part would be empty, a class has fewer than 2 rows or a part has fewer
\* rows than there are classes.
SplitRaises(bag) ==
  LET n == Total(bag)
      k == Cardinality(Present(bag))
  IN \/ NTrain(n) = 0
     \/ \E l \in Present(bag) : bag[l] < 2
     \/ NTrain(n) < k
     \/ NTest(n) < k

\* The class counts of y_train: each class gets its share of the train
\* rows rounded down, the remaining rows go one each to some classes.
TrainBags(bag) ==
  LET n == Total(bag)
      floor(l) == (bag[l] * NTrain(n)) \div n
      share(A) == [l \in LabelUniverse |-> floor(l) + (IF l \in A THEN 1 ELSE 0)]
  IN { share(A) : A \in { B \in SUBSET Present(bag) :
                            /\ \A l \in B : floor(l) + 1 <= bag[l]
                            /\ Total(share(B)) = NTrain(n) } }

\* split_data_on_train_and_test
SplitOutcomes(bag) ==
  IF SplitRaises(bag)
  THEN {[raised |-> TRUE, y_train |-> NoBag, y_test |-> NoBag]}
  ELSE {[raised |-> FALSE, y_train |-> t,
         y_test |-> [l \in LabelUniverse |-> bag[l] - t[l]]] : t \in TrainBags(bag)}

\* ------------------------------------------------ positive-class detection
\* Counter(y_train)
Counter(bag) == [l \in Present(bag) |-> bag[l]]

\* The first of the sorted labels instead of the last.
PosLabelFirst(class_belongings) ==
  LET s == SortedSeq(DOMAIN class_belongings) IN s[1]

\* *_, positive_class_label = iter(sorted(class_belongings))
PositiveClassLabel(class_belongings) ==
  LET s == SortedSeq(DOMAIN class_belongings) IN s[Len(s)]

\* class_belongings.get(positive_class_label, None)
CounterGet(class_belongings, label) ==
  IF label \in DOMAIN class_belongings
  THEN [some |-> TRUE, val |-> class_belongings[label]]
  ELSE [some |-> FALSE, val |-> 0]

\* The check with the threshold off by one.
IsMulticlassLoose(class_belongings) ==
  Cardinality(DOMAIN class_belongings) > MaxBinary + 1

\* len(class_belongings) > 2
IsMulticlass(class_belongings) ==
  Cardinality(DOMAIN class_belongings) > MaxBinary

\* ------------------------------------------- fit, predict, examine_quality
NoRet == [some |-> FALSE, from |-> 0]

Result(exc, events, ret, fitted) ==
  [exc |-> exc, events |-> events, ret |-> ret, fitted |-> fitted]

\* utils.decorators.ExceptionWrapper.log_exception: the wrapped call's
\* exception is logged and the call returns None.
LogException(res, t, ev) ==
  IF res.exc = "" THEN res
  ELSE Result("", res.events \o <<Ev(t, ev, res.exc, 0)>>, NoRet, res.fitted)

SupportedMetrics == {"f1", "balanced_accuracy", "average_precision"}

\* What the external calls of one loop iteration can do: the tuner and the
\* fit of the best model, and the metric functions.
ExternalOutcomes ==
  [tuner : {"ok", "tune_error", "no_best_trial"}, metrics : {"ok", "error"}]

\* The body of ImbaExperimentRunner.fit, entered with n_evals bound.
ImbaFitBody(t, n_evals_arg, ext, fitted) ==
  LET trials == <<Ev(t, "fit_trials", "", n_evals_arg)>>
      tuner == <<Ev(t, "tuner", "num_samples", n_evals_arg)>>
  IN IF metric \notin SupportedMetrics
     THEN Result("ValueError", trials, NoRet, fitted)
     ELSE IF ext.tuner = "tune_error"
     THEN Result("TuneError", trials \o tuner, NoRet, fitted)
     ELSE IF ext.tuner = "no_best_trial"
     THEN Result("Exception", trials \o tuner, NoRet, fitted)
     ELSE Result("", trials \o tuner \o <<Ev(t, "fitted", "", t)>>, NoRet,
                 [state |-> "model", task |-> t])

\* A call of ImbaExperimentRunner.fit with nargs arguments after self: the
\* call raises TypeError unless every parameter is bound.
ImbaFit(t, nargs, n_evals_arg, ext, fitted) ==
  IF nargs # FitArity
  THEN Result("TypeError", <<>>, NoRet, fitted)
  ELSE ImbaFitBody(t, n_evals_arg, ext, fitted)

\* ImbaExperimentRunner.predict
ImbaPredict(t, fitted) ==
  IF fitted.state = "unset"
  THEN Result("AttributeError", <<>>, NoRet, fitted)
  ELSE IF fitted.state = "none"
  THEN Result("NotFittedError", <<>>, NoRet, fitted)
  ELSE Result("", <<Ev(t, "predictions", "", fitted.task)>>,
              [some |-> TRUE, from |-> fitted.task], fitted)

\* ExperimentRunner.examine_quality
ExamineQuality(t, y_pred, pos_label, ext, fitted) ==
  IF ~y_pred.some
  THEN Result("TypeError", <<>>, NoRet, fitted)
  ELSE IF ext.metrics = "error"
  THEN Result("ValueError", <<>>, NoRet, fitted)
  ELSE Result("", <<Ev(t, "metrics", "", pos_label)>>, NoRet, fitted)

\* fit_predict_evaluate with predict called before fit.
FitPredictEvaluateSwapped(t, pos_label, ext, fitted) ==
  LET p == LogException(ImbaPredict(t, fitted), t, "predict_exception")
      predEv == <<Ev(t, "predict", "", 0)>> \o p.events
      f == LogException(ImbaFit(t, RunFitArgs, 0, ext, fitted), t, "fit_exception")
      fitEv == predEv \o <<Ev(t, "fit", "", RunFitArgs)>> \o f.events
      e == ExamineQuality(t, p.ret, pos_label, ext, f.fitted)
      how == IF p.ret.some THEN "predictions" ELSE "None"
  IN Result(e.exc, fitEv \o <<Ev(t, "examine", how, pos_label)>> \o e.events,
            NoRet, f.fitted)

\* The body of run's fit_predict_evaluate.
FitPredictEvaluate(t, pos_label, ext, fitted) ==
  LET f == LogException(ImbaFit(t, RunFitArgs, 0, ext, fitted), t, "fit_exception")
      fitEv == <<Ev(t, "fit", "", RunFitArgs)>> \o f.events
  IN IF f.exc # "" THEN Result(f.exc, fitEv, NoRet, f.fitted)
     ELSE
     LET p == LogException(ImbaPredict(t, f.fitted), t, "predict_exception")
         predEv == fitEv \o <<Ev(t, "predict", "", 0)>> \o p.events
     IN IF p.exc # "" THEN Result(p.exc, predEv, NoRet, f.fitted)
        ELSE
        LET e == ExamineQuality(t, p.ret, pos_label, ext, f.fitted)
            how == IF p.ret.some THEN "predictions" ELSE "None"
        IN Result(e.exc,
                  predEv \o <<Ev(t, "examine", how, pos_label)>> \o e.events,
                  NoRet, f.fitted)

\* fit_predict_evaluate() called without the wrapper.
UnguardedBlock(t, pos_label, ext, fitted) ==
  FitPredictEvaluate(t, pos_label, ext, fitted)

\* ExceptionWrapper.log_exception(fit_predict_evaluate)()
GuardedBlock(t, pos_label, ext, fitted) ==
  LogException(FitPredictEvaluate(t, pos_label, ext, fitted), t, "block_exception")

\* ---------------------------------------------------- ExperimentRunner.run
\* The first half of a loop iteration: the data handed to the split.
Prepare(t, task) ==
  IF task.kind = "ndarray"
  THEN [own |-> task.X, ok |-> TRUE, y |-> task.y, events |-> <<>>]
  ELSE LET pp == PreprocessData(task.X, task.y)
       IN [own |-> pp.own, ok |-> pp.ok, y |-> pp.y,
           events |-> <<Ev(t, "preprocess", "", pp.X.rows)>>
                      \o (IF pp.ok THEN <<>>
                          ELSE <<Ev(t, "error", "unexpected_size", 0)>>)]

Step(ctl, events, fitted) == [ctl |-> ctl, events |-> events, fitted |-> fitted]

\* The second half of a loop iteration, from the split on; ctl says how
\* the iteration ends: "next", "return" or "raise".
AfterSplit(t, sp, ext, fitted) ==
  IF sp.raised
  THEN Step("raise", <<Ev(t, "split", "ValueError", 0)>>, fitted)
  ELSE
  LET class_belongings == Counter(sp.y_train)
      head == <<Ev(t, "split", "", Total(sp.y_train)),
                Ev(t, "class_belongings", "", Cardinality(DOMAIN class_belongings))>>
  IN IF IsMulticlass(class_belongings)
     THEN Step("return", head \o <<Ev(t, "info", "multiclass", 0)>>, fitted)
     ELSE
     LET positive_class_label == PositiveClassLabel(class_belongings)
         number_of_positives == CounterGet(class_belongings, positive_class_label)
     IN IF ~number_of_positives.some
        THEN Step("return", head \o <<Ev(t, "error", "unknown_positive", 0)>>, fitted)
        ELSE
        LET b == GuardedBlock(t, positive_class_label, ext, fitted)
            pos == <<Ev(t, "positives", "", number_of_positives.val)>>
        IN Step(IF b.exc = "" THEN "next" ELSE "raise",
                head \o pos \o b.events, b.fitted)

\* run(n_evals): the assignment of the trial count before the loop.
RunStart ==
  /\ pc \in {"new", "defined"}
  /\ \E given \in BOOLEAN : \E n \in 1 .. MaxTrials :
       /\ n_evals' = IF given THEN n ELSE n_evals
       /\ log' = Append(log, Ev(0, "run", IF given THEN "count" ELSE "None",
                                IF given THEN n ELSE 0))
  /\ pc' = "running"
  /\ idx' = 1
  /\ UNCHANGED <<runner, datasets, metric, tasks, id_counter, fitted_model, loaded,
                 y_train>>
  /\ UNCHANGED main_vars

\* One iteration of run's loop over self._tasks.
RunTask ==
  /\ pc = "running"
  /\ idx <= Len(tasks)
  /\ LET t == idx
         task == tasks[t]
     IN IF task.kind = "None"
        THEN /\ pc' = "done"
             /\ log' = Append(log, Ev(t, "return", "none_task", 0))
             /\ UNCHANGED <<tasks, fitted_model, idx, y_train>>
        ELSE
        LET pre == Prepare(t, task)
            seen == <<Ev(t, "task", task.kind, task.id)>> \o pre.events
        IN /\ tasks' = [tasks EXCEPT ![t].X = pre.own]
           /\ IF ~pre.ok
              THEN /\ pc' = "done"
                   /\ log' = log \o seen
                   /\ UNCHANGED <<fitted_model, idx, y_train>>
              ELSE \E sp \in SplitOutcomes(pre.y.counts) :
                   \E ext \in ExternalOutcomes :
                     LET s == AfterSplit(t, sp, ext, fitted_model)
                     IN /\ log' = log \o seen \o s.events
                        /\ fitted_model' = s.fitted
                        /\ y_train' = IF sp.raised THEN y_train ELSE sp.y_train
                        /\ pc' = CASE s.ctl = "next" -> "running"
                                   [] s.ctl = "return" -> "done"
                                   [] OTHER -> "raised"
                        /\ idx' = IF s.ctl = "next" THEN idx + 1 ELSE idx
  /\ UNCHANGED <<runner, datasets, metric, id_counter, n_evals, loaded>>
  /\ UNCHANGED main_vars

\* The loop of run is exhausted.
RunReturn ==
  /\ pc = "running"
  /\ idx > Len(tasks)
  /\ pc' = "done"
  /\ UNCHANGED <<runner, datasets, metric, tasks, id_counter, n_evals,
                 fitted_model, idx, log, loaded, y_train>>
  /\ UNCHANGED main_vars

\* ------------------------------------------------------------------ Spec
MainIdle ==
  /\ argv = <<>>
  /\ main_pc = "idle"
  /\ main_log = <<>>

\* The fetched Zenodo collections.
Collections ==
  UNION { [1 .. n -> YBags] : n \in 0 .. MaxFetched }

Init ==
  /\ runner \in {"openml", "zenodo"}
  /\ datasets \in (IF runner = "zenodo" THEN Collections ELSE {<<>>})
  /\ metric \in Metrics
  /\ RunnerInit
  /\ MainIdle

Next ==
  \/ OpenMLDefineTasks
  \/ ZenodoDefineTasks
  \/ RunStart
  \/ RunTask
  \/ RunReturn

Spec == Init /\ [][Next]_vars

\* ------------------------------------------------------ ExperimentMain.main
\* A command line: the value of each option, "absent" (0 for --trials)
\* when the option is not given.
Argvs ==
  [automl : {"imba", "ag", "other", "absent"},
   out : {"file", "console", "other", "absent"},
   preset : {"medium_quality", "good_quality", "other", "absent"},
   trials : 0 .. MaxTrials]

Given(v, default) == IF v = "absent" THEN default ELSE v

\* parser.parse_args(): the namespace has one attribute per dest.
ParseArgs(a) ==
  [automl |-> Given(a.automl, "imba"),
   out |-> Given(a.out, "file"),
   preset |-> Given(a.preset, "good_quality"),
   t |-> IF a.trials = 0 THEN DefaultTrials ELSE a.trials]

HasAttr(ns, name) == name \in DOMAIN ns

MainResult(pcv, steps) == [pc |-> pcv, steps |-> steps]

\* The runner construction and the two calls on it.
MainRunner(automl, preset, trials, steps) ==
  IF automl = "ag"
  THEN IF preset \notin {"medium_quality", "good_quality"}
       THEN MainResult("raised", Append(steps, "Exception:preset"))
       ELSE MainResult("done",
              steps \o <<"AGExperimentRunner", "define_tasks", "run">>)
  ELSE IF automl = "imba"
  THEN \* ImbaExperimentRunner() against __init__(self, metric)
       MainResult("raised", Append(steps, "TypeError:ImbaExperimentRunner"))
  ELSE MainResult("raised", Append(steps, "Exception:automl"))

\* logging.basicConfig by the output mode.
MainLogging(automl, logging_output, preset, trials, steps) ==
  IF logging_output = "file"
  THEN MainRunner(automl, preset, trials, Append(steps, "logging:file"))
  ELSE IF logging_output = "console"
  THEN MainRunner(automl, preset, trials, Append(steps, "logging:console"))
  ELSE MainResult("raised", Append(steps, "Exception:out"))

\* The four getattr calls on the namespace, then the rest of main.
MainAfterParse(ns) ==
  IF ~HasAttr(ns, "automl") THEN MainResult("raised", <<"AttributeError:automl">>)
  ELSE IF ~HasAttr(ns, "o") THEN MainResult("raised", <<"AttributeError:o">>)
  ELSE IF ~HasAttr(ns, "preset") THEN MainResult("raised", <<"AttributeError:preset">>)
  ELSE IF ~HasAttr(ns, "trials") THEN MainResult("raised", <<"AttributeError:trials">>)
  ELSE MainLogging(ns["automl"], ns["o"], ns["preset"], ns["trials"], <<>>)

MainParse ==
  /\ main_pc = "start"
  /\ main_pc' = "parsed"
  /\ main_log' = <<"parse_args">>
  /\ UNCHANGED argv
  /\ UNCHANGED runner_vars

MainBody ==
  /\ main_pc = "parsed"
  /\ LET r == MainAfterParse(ParseArgs(argv))
     IN /\ main_pc' = r.pc
        /\ main_log' = main_log \o r.steps
  /\ UNCHANGED argv
  /\ UNCHANGED runner_vars

MainInit ==
  /\ runner = "openml"
  /\ datasets = <<>>
  /\ metric \in Metrics
  /\ RunnerInit
  /\ argv \in Argvs
  /\ main_pc = "start"
  /\ main_log = <<>>

MainNext ==
  \/ MainParse
  \/ MainBody

SpecMain == MainInit /\ [][MainNext]_vars

\* ----------------------------------------------------------------- claims
Events == 1 .. Len(log)

Datasets == {t \in 1 .. Len(tasks) : tasks[t].kind # "None"}

Happened(t, ev) == \E j \in Events : log[j].task = t /\ log[j].ev = ev

\* Some event ev of the same task precedes position j of the log.
Before(j, ev) ==
  \E i \in 1 .. j - 1 : log[i].task = log[j].task /\ log[i].ev = ev

\* C1: when run has returned, every dataset of the task list was fitted
\* (a model was trained on its train split) and scored (its quality
\* metrics were recorded).
C1_Claim ==
  pc = "done" =>
    \A t \in Datasets : Happened(t, "fitted") /\ Happened(t, "metrics")

\* C2: within a task the steps come in the order preprocess (DataFrame
\* inputs), split, fit, predict, examine_quality: predict is never invoked
\* before fit was invoked for the task, and examine_quality never before
\* predict was.
C2_Order ==
  \A j \in Events :
    /\ log[j].ev = "predict" => Before(j, "fit")
    /\ log[j].ev = "examine" => Before(j, "predict")
    /\ log[j].ev = "fit" => Before(j, "split")
    /\ (log[j].ev = "split" /\ tasks[log[j].task].kind = "frame")
         => Before(j, "preprocess")

\* A DataFrame task went through all five steps.
C2_Witness ==
  \E j \in Events :
    /\ log[j].ev = "examine"
    /\ tasks[log[j].task].kind = "frame"
    /\ Before(j, "preprocess")

ValidArgv ==
  /\ argv.automl \in {"imba", "ag", "absent"}
  /\ argv.out \in {"file", "console", "absent"}
  /\ argv.preset \in {"medium_quality", "good_quality", "absent"}

\* C3: main called with valid option values does not raise: it configures
\* logging, constructs the runner of the selected backend, calls
\* define_tasks and then run.
C3_Claim ==
  (ValidArgv /\ main_pc \in {"done", "raised"}) =>
    /\ main_pc = "done"
    /\ Len(main_log) = 5
    /\ main_log[2] \in {"logging:file", "logging:console"}
    /\ main_log[3] \in {"AGExperimentRunner", "ImbaExperimentRunner"}
    /\ main_log[4] = "define_tasks"
    /\ main_log[5] = "run"

\* C4: every fit that run invokes receives the trial count of the run as
\* its n_evals argument and hands it to the tuner as num_samples; the count
\* is the one given to run, or the default of 10 when none was given.
C4_Claim ==
  \A j \in Events :
    /\ log[j].ev = "fit" =>
         \E i \in Events :
           /\ i > j
           /\ log[i].task = log[j].task
           /\ log[i].ev = "fit_trials"
           /\ log[i].num = n_evals
    /\ log[j].ev = "tuner" => log[j].num = n_evals
    /\ log[j].ev = "run" =>
         n_evals = (IF log[j].info = "None" THEN DefaultEvals ELSE log[j].num)

BlockExceptions == {"fit_exception", "predict_exception", "block_exception"}

\* C5: an exception of fit, predict or examine_quality is caught and
\* logged and does not leave run: the only exception that leaves run is the
\* split's, an examine_quality that was handed no predictions is followed
\* by the logged exception, and after a logged exception the loop has moved
\* on to the next task.
C5_Caught ==
  /\ pc = "raised" => (log[Len(log)].ev = "split" /\ log[Len(log)].info = "ValueError")
  /\ \A j \in Events :
       /\ (log[j].ev = "examine" /\ log[j].info = "None") =>
            (j < Len(log) /\ log[j + 1].ev = "block_exception"
                          /\ log[j + 1].task = log[j].task)
       /\ log[j].ev \in BlockExceptions => idx > log[j].task

\* An exception was logged for one task and run went on with the next one.
C5_Witness ==
  \E j \in Events : \E i \in Events :
    /\ j < i
    /\ log[j].ev = "block_exception"
    /\ log[i].ev = "task"
    /\ log[i].task = log[j].task + 1

LoadedOk == SelectSeq(tasks, LAMBDA d : d.kind # "None")

LoadErrors == {j \in Events : log[j].ev = "load_error"}

\* C6: a failed fetch of the OpenML loader yields None, is logged and
\* takes no id: the datasets that loaded have the ids 1, 2, 3, ... in
\* loading order and the counter stands right after the last of them.
C6_Ids ==
  (runner = "openml" /\ pc # "new") =>
    /\ \A k \in 1 .. Len(LoadedOk) : LoadedOk[k].id = k
    /\ id_counter = Len(LoadedOk) + 1
    /\ Cardinality(LoadErrors) = Len(tasks) - Len(LoadedOk)

\* A fetch failed and a later one succeeded.
C6_Witness ==
  /\ runner = "openml"
  /\ Len(tasks) = 2
  /\ tasks[1].kind = "None"
  /\ tasks[2].kind = "frame"
  /\ tasks[2].id = 1

\* C7: after run, the X and y of every task are the ones define_tasks
\* loaded: same rows, same columns.
C7_Claim ==
  pc = "done" =>
    \A t \in 1 .. Len(tasks) : tasks[t].X = loaded[t].X /\ tasks[t].y = loaded[t].y

\* C8: a task whose y_train holds more than two classes is never fitted,
\* predicted or scored, and run logs that multiclass problems are not
\* supported.
C8_Binary ==
  \A j \in Events :
    (log[j].ev = "class_belongings" /\ log[j].num > 2) =>
      /\ ~Happened(log[j].task, "fit")
      /\ ~Happened(log[j].task, "predict")
      /\ ~Happened(log[j].task, "examine")
      /\ j < Len(log)
      /\ log[j + 1] = Ev(log[j].task, "info", "multiclass", 0)

\* A task with three classes in y_train reached the check.
C8_Witness ==
  \E j \in Events : log[j].ev = "class_belongings" /\ log[j].num = 3

\* The loop iteration the log ends with.
LastTask == log[Len(log)].task

\* C9: the positive label handed to examine_quality is the greatest label
\* present in y_train, its count in y_train is at least 1, and the
\* "Unknown positive class label" return is never taken.
C9_Positive ==
  /\ \A j \in Events : ~(log[j].ev = "error" /\ log[j].info = "unknown_positive")
  /\ \A j \in Events :
       (log[j].task = LastTask /\ log[j].ev = "examine") =>
         /\ log[j].num \in Present(y_train)
         /\ \A l \in Present(y_train) : l <= log[j].num
         /\ y_train[log[j].num] >= 1
         /\ \E i \in 1 .. j - 1 :
              /\ log[i].task = LastTask
              /\ log[i].ev = "positives"
              /\ log[i].num = y_train[log[j].num]

\* examine_quality was called for a task with two classes in y_train.
C9_Witness ==
  \E j \in Events :
    /\ log[j].task = LastTask
    /\ log[j].ev = "examine"
    /\ Cardinality(Present(y_train)) = 2

\* C10: the predictions examine_quality scores come from the model fitted
\* on the task's own train split in the same iteration, and a predict that
\* fails before any successful fit fails with NotFittedError.
C10_Claim ==
  \A j \in Events :
    /\ log[j].ev = "examine" =>
         /\ log[j].info = "predictions"
         /\ Before(j, "fitted")
         /\ \E i \in 1 .. j - 1 :
              /\ log[i].task = log[j].task
              /\ log[i].ev = "predictions"
              /\ log[i].num = log[j].task
    /\ (log[j].ev = "predict_exception"
          /\ ~\E i \in 1 .. j - 1 : log[i].ev = "fitted")
         => log[j].info = "NotFittedError"

\* define_tasks of the Zenodo runner was called with no task_range.
DefaultRangeUsed ==
  /\ runner = "zenodo"
  /\ \E j \in Events : log[j].ev = "task_range" /\ log[j].info = "default"

\* C11: ZenodoExperimentRunner.define_tasks called with no task_range
\* loads every fetched dataset exactly once: the task list it builds has
\* one record per fetched dataset, none of them None, in the order of the
\* fetched collection.
C11_Claim ==
  DefaultRangeUsed =>
    /\ Len(loaded) = Len(datasets)
    /\ \A k \in 1 .. Len(loaded) :
         /\ loaded[k].kind = "ndarray"
         /\ loaded[k].y.counts = datasets[k]
         /\ loaded[k].id = k

====
